---- MODULE Spec2Model ----
(***************************************************************************)
(* A model of src/main.py: the /route command with process_single_route   *)
(* (normalise, reduce per vehicle, enrich, build), the /vehicle lookup     *)
(* and vehicle_autocomplete.                                               *)
(*                                                                         *)
(* Python values are modelled as tagged tuples: Str(s) with s a sequence   *)
(* of code points, Num(n), and None.  A JSON object is a function whose    *)
(* DOMAIN is the set of keys it has.                                       *)
(***************************************************************************)
EXTENDS Integers, Sequences, FiniteSets, TLC

VARIABLES
    pc,          \* position of the running handler
    route,       \* process_single_route: route_number
    upstream,    \* what the arrivals feed answers to this call
    data,        \* process_single_route: data (response.json())
    idx,         \* number of arrivals of data the for loop has consumed
    now,         \* last value read from time.time()
    bus_info,    \* the reducer mapping, in insertion order: <<key, info>>
    bus_data,    \* the tuples appended by the enrichment loop
    embed,       \* return value of process_single_route
    requests,    \* HTTP requests issued so far, in order
    seen,        \* the locals of every loop iteration so far (history)
    bt_seen,     \* the registry outcome of every enrichment call (history)
    route_number,   \* route: the text the caller gave
    route_numbers,  \* route: the tokens kept by line 110
    embeds,         \* route: the embeds collected so far
    returned,       \* route: what process_single_route returned, per route (history)
    followup,       \* messages sent with interaction.followup.send, in order
    registration,   \* vehicle: the text the caller gave
    current,        \* vehicle_autocomplete: the text typed so far
    choices         \* vehicle_autocomplete: the return value

pipeVars == <<route, upstream, data, idx, now, bus_info, bus_data, embed, seen, bt_seen>>
cmdVars == <<route_number, route_numbers, embeds, returned, followup,
             registration, current, choices>>

vars == <<pc, requests, pipeVars, cmdVars>>

----------------------------------------------------------------------------
(* Python values *)

None == <<"none">>
Str(s) == <<"str", s>>
Num(n) == <<"num", n>>
List(l) == <<"list", l>>
Dict(f) == <<"dict", f>>

IsStr(v) == v[1] = "str"
IsNum(v) == v[1] = "num"
IsDict(v) == v[1] = "dict"

\* bool(v) of a str, int or None
Truthy(v) ==
    CASE v = None -> FALSE
      [] IsStr(v) -> v[2] # <<>>
      [] IsNum(v) -> v[2] # 0
      [] v[1] = "list" -> v[2] # <<>>
      [] v[1] = "dict" -> DOMAIN v[2] # {}
      [] OTHER -> TRUE

\* a or b
Or(a, b) == IF Truthy(a) THEN a ELSE b

\* dict.get(key, default)
Get(d, key, default) == IF key \in DOMAIN d THEN d[key] ELSE default

\* code points
SP == 32
NA == <<78, 47, 65>>

\* str.upper() on ASCII
Upper(s) == [i \in 1..Len(s) |-> IF s[i] \in 97..122 THEN s[i] - 32 ELSE s[i]]

\* str.replace(" ", "")
RemoveSpaces(s) == SelectSeq(s, LAMBDA c : c # SP)

\* s < t for Python str: by code point, a proper prefix is smaller
RECURSIVE StrLess(_, _)
StrLess(s, t) ==
    IF t = <<>> THEN FALSE
    ELSE IF s = <<>> THEN TRUE
    ELSE IF Head(s) # Head(t) THEN Head(s) < Head(t)
    ELSE StrLess(Tail(s), Tail(t))

----------------------------------------------------------------------------
(* process_single_route: the normaliser (lines 158-187) *)

\* An ISO-8601 text is a sequence of lexemes: <<date-time, offset>>.
\* str.replace('Z', '+00:00')
ReplaceZ(s) == [i \in 1..Len(s) |-> IF s[i] = "Z" THEN "+00:00" ELSE s[i]]

Raised == <<"raised">>

\* seconds from the epoch to a date-time read as UTC
WallSeconds(d) ==
    CASE d = "1970-01-01T00:16:50" -> 1010
      [] d = "1970-01-01T00:20:00" -> 1200
      [] d = "1970-01-01T01:19:00" -> 4740
      [] OTHER -> -1

\* seconds east of UTC of an offset lexeme datetime.fromisoformat accepts
\* (the 'Z' lexeme itself is not one of them)
OffsetSeconds(o) ==
    CASE o = "+00:00" -> 0
      [] o = "+01:00" -> 3600
      [] OTHER -> -1

\* int(datetime.fromisoformat(s).timestamp()), or Raised
FromIsoformat(s) ==
    IF /\ Len(s) = 2
       /\ WallSeconds(s[1]) # -1
       /\ OffsetSeconds(s[2]) # -1
    THEN Num(WallSeconds(s[1]) - OffsetSeconds(s[2]))
    ELSE Raised

\* lines 163-187 with expectedArrival tried first
ArrivalTimestampExpectedFirst(arrival, t) ==
    LET time_to_station == Get(arrival, "timeToStation", None)
        expected_arrival == Get(arrival, "expectedArrival", None) IN
    IF /\ Truthy(expected_arrival)
       /\ IsStr(expected_arrival)
       /\ FromIsoformat(ReplaceZ(expected_arrival[2])) # Raised
    THEN FromIsoformat(ReplaceZ(expected_arrival[2]))
    ELSE IF IsNum(time_to_station) THEN Num(t + time_to_station[2]) ELSE None

\* arrival_timestamp after lines 163-187; t is the value time.time() gives
ArrivalTimestamp(arrival, t) ==
    LET time_to_station == Get(arrival, "timeToStation", None) IN
    IF time_to_station # None
    THEN IF IsNum(time_to_station) THEN Num(t + time_to_station[2]) ELSE None
    ELSE LET expected_arrival == Get(arrival, "expectedArrival", None) IN
         IF Truthy(expected_arrival)
         THEN IF /\ IsStr(expected_arrival)
                 /\ FromIsoformat(ReplaceZ(expected_arrival[2])) # Raised
              THEN FromIsoformat(ReplaceZ(expected_arrival[2]))
              ELSE None
         ELSE None

\* time_due: "N/A" or f"<t:{arrival_timestamp}:R>"
TimeDue(ts) == IF ts = None THEN <<"N/A">> ELSE <<"<t:", ts[2], ":R>">>

\* the locals of one loop iteration at line 189
Normalize(arrival, t) ==
    [vehicle_id |-> Get(arrival, "vehicleId", None),
     info |-> [destination |-> Get(arrival, "destinationName", "Unknown Destination"),
               next_stop |-> Get(arrival, "stationName", "Unknown Stop"),
               time_due |-> TimeDue(ArrivalTimestamp(arrival, t)),
               timestamp |-> ArrivalTimestamp(arrival, t)]]

\* whether the iteration reads time.time() (line 172)
ReadsClock(arrival) == IsNum(Get(arrival, "timeToStation", None))

----------------------------------------------------------------------------
(* process_single_route: the per-vehicle reducer (lines 189-207) *)

\* bus_info is a dict: a sequence of <<key, value>> in insertion order
Keys(d) == [i \in 1..Len(d) |-> d[i][1]]
KeySet(d) == {d[i][1] : i \in 1..Len(d)}
Has(d, k) == k \in KeySet(d)
Lookup(d, k) == d[CHOOSE i \in 1..Len(d) : d[i][1] = k][2]
\* d[k] = v: a new key goes last, an old key keeps its place
Put(d, k, v) ==
    IF Has(d, k)
    THEN [i \in 1..Len(d) |-> IF d[i][1] = k THEN <<k, v>> ELSE d[i]]
    ELSE Append(d, <<k, v>>)

\* line 189 without the comparison with the sentinel
UsableNoSentinel(vehicle_id) == Truthy(vehicle_id)

\* line 189
Usable(vehicle_id) == Truthy(vehicle_id) /\ vehicle_id # Str(NA)

\* lines 200-201 with the comparison of line 201 reversed
SoonerReversed(new, kept) ==
    /\ new.timestamp # None
    /\ kept.timestamp # None
    /\ new.timestamp[2] > kept.timestamp[2]

\* lines 200-201
Sooner(new, kept) ==
    /\ new.timestamp # None
    /\ kept.timestamp # None
    /\ new.timestamp[2] < kept.timestamp[2]

\* bus_info after lines 189-207 for one normalised arrival
ReduceArrival(d, n) ==
    IF Usable(n.vehicle_id)
    THEN IF ~Has(d, n.vehicle_id)
         THEN Put(d, n.vehicle_id, n.info)
         ELSE IF Sooner(n.info, Lookup(d, n.vehicle_id))
              THEN Put(d, n.vehicle_id, n.info)
              ELSE d
    ELSE d

----------------------------------------------------------------------------
(* process_single_route: the enrichment loop (lines 209-226) *)

\* bt_params of line 215
BtParams(reg) == [reg |-> RemoveSpaces(Upper(reg[2]))]

\* the request of line 216
BtRequest(reg) == [url |-> "bustimes.org/api/vehicles/", params |-> BtParams(reg), timeout |-> 3]

\* fleet_code after lines 212-224; outcome is what the registry call does:
\* requests.get raises, raise_for_status raises, json() raises, or a body
FleetCode(outcome) ==
    IF outcome.kind # "ok" THEN Str(NA)
    ELSE LET bt_data == outcome.body IN
         IF ~IsDict(bt_data) THEN Str(NA)
         ELSE LET results == Get(bt_data[2], "results", None) IN
              IF ~Truthy(results) THEN Str(NA)
              ELSE IF ~IsDict(results[2][1]) THEN Str(NA)
              ELSE LET vehicle == results[2][1][2] IN
                   Or(Get(vehicle, "fleet_code", None),
                      Or(Get(vehicle, "fleet_number", None), Str(NA)))

\* the tuple of line 226
BusTuple(reg, info, fleet_code) ==
    <<reg, info.destination, fleet_code, info.next_stop, info.time_due>>

----------------------------------------------------------------------------
(* process_single_route: the summary builder (lines 228-252) *)

\* tuples compare element by element; the first elements are distinct dict
\* keys, so the first element decides
TupleLess(a, b) == StrLess(a[1][2], b[1][2])

\* list.insert of x before the first element greater than x
RECURSIVE Insert(_, _)
Insert(x, l) ==
    IF l = <<>> THEN <<x>>
    ELSE IF TupleLess(x, Head(l)) THEN <<x>> \o l
    ELSE <<Head(l)>> \o Insert(x, Tail(l))

\* bus_data left in the order of the enrichment loop
Unsorted(l) == l

\* sorted(bus_data)
RECURSIVE Sorted(_)
Sorted(l) == IF l = <<>> THEN <<>> ELSE Insert(l[Len(l)], Sorted(SubSeq(l, 1, Len(l) - 1)))

\* line 243
Line(t) == [fleet |-> t[3], reg |-> t[1], dest |-> t[2], time_str |-> t[5], stop |-> t[4]]

\* lines 241-244
BusLines(sorted_buses) == [i \in 1..Len(sorted_buses) |-> Line(sorted_buses[i])]

\* lines 229-252: None, or the embed
BuildEmbed(rn, l) ==
    IF Sorted(l) = <<>> THEN None
    ELSE <<"embed", [title |-> <<"Active buses on route ", rn>>,
                     name |-> "Vehicle Info",
                     value |-> BusLines(Sorted(l))]>>

----------------------------------------------------------------------------
(* Inputs of process_single_route *)

MaxFeed == 3     \* longest arrivals feed
T0 == 1000       \* time.time() when the handler starts
Ticks == {0, 1}  \* seconds that may pass between two reads of time.time()

IdA == <<65>>
IdAB == <<65, 66>>
Idab == <<97, SP, 98>>

\* arrivals of one vehicle with every shape of the two time fields
ArrivalsA ==
    { [vehicleId |-> Str(IdA), destinationName |-> "Aldgate", stationName |-> "S1",
       timeToStation |-> Num(60)],
      [vehicleId |-> Str(IdA), destinationName |-> "Aldgate", stationName |-> "S2",
       timeToStation |-> Num(30), expectedArrival |-> Str(<<"1970-01-01T00:16:50", "Z">>)],
      [vehicleId |-> Str(IdA), destinationName |-> "Aldgate", stationName |-> "S3"],
      [vehicleId |-> Str(IdA), destinationName |-> "Aldgate", stationName |-> "S4",
       expectedArrival |-> Str(<<"soon">>)],
      [vehicleId |-> Str(IdA), destinationName |-> "Aldgate", stationName |-> "S5",
       expectedArrival |-> Str(<<"1970-01-01T00:20:00", "Z">>)],
      [vehicleId |-> Str(IdA), destinationName |-> "Aldgate", stationName |-> "S6",
       expectedArrival |-> Str(<<"1970-01-01T01:19:00", "+01:00">>)] }

ArrivalAB0 == [vehicleId |-> Str(IdAB), stationName |-> "S7", timeToStation |-> Num(0)]
ArrivalAB == [vehicleId |-> Str(IdAB), stationName |-> "S8", timeToStation |-> None,
              expectedArrival |-> Str(<<>>)]
Arrivalab == [vehicleId |-> Str(Idab), destinationName |-> "Bow"]

\* arrivals without a usable vehicle identifier
ArrivalsNoKey ==
    { [stationName |-> "S9", timeToStation |-> Num(60)],
      [vehicleId |-> None, stationName |-> "S9"],
      [vehicleId |-> Str(<<>>), stationName |-> "S9"],
      [vehicleId |-> Str(NA), stationName |-> "S9"] }

\* the feed of the reducer's specification
ReducePool == ArrivalsA \cup {ArrivalAB0} \cup ArrivalsNoKey

\* the feed of the enrichment's specification: three vehicles, one of them twice
EnrichPool ==
    { [vehicleId |-> Str(IdA), destinationName |-> "Aldgate", stationName |-> "S3"],
      [vehicleId |-> Str(IdA), destinationName |-> "Aldgate", stationName |-> "S5",
       expectedArrival |-> Str(<<"1970-01-01T00:20:00", "Z">>)],
      ArrivalAB, Arrivalab,
      [vehicleId |-> None, stationName |-> "S9"] }

RECURSIVE SeqsUpTo(_, _)
SeqsUpTo(S, n) ==
    IF n = 0 THEN {<<>>}
    ELSE SeqsUpTo(S, n - 1) \cup
         {Append(q, x) : q \in {r \in SeqsUpTo(S, n - 1) : Len(r) = n - 1}, x \in S}

\* what the arrivals feed may do: requests.get raises, raise_for_status raises,
\* json() raises, or a body
FeedOutcomes ==
    {[kind |-> k] : k \in {"conn_error", "http_error", "bad_json"}}
    \cup {[kind |-> "ok", body |-> b] : b \in SeqsUpTo(ReducePool, MaxFeed)}

EnrichFeedOutcomes ==
    {[kind |-> "ok", body |-> b] : b \in SeqsUpTo(EnrichPool, MaxFeed)}

F1 == <<70, 49>>
N9 == <<57>>

\* what one registry call of the enrichment loop may do
BtOk == Dict([results |-> List(<<Dict([fleet_code |-> Str(F1), fleet_number |-> Str(N9)])>>)])

BtOutcomes ==
    {[kind |-> k] : k \in {"conn_error", "timeout", "http_error", "bad_json"}}
    \cup {[kind |-> "ok", body |-> b] : b \in
            { List(<<>>),
              Dict([count |-> Num(0), results |-> List(<<>>)]),
              BtOk,
              Dict([results |-> List(<<Dict([fleet_code |-> Str(<<>>), fleet_number |-> Str(N9)])>>)]) }}

\* the registry outcomes of the reducer's specification
BtFew == {[kind |-> "timeout"], [kind |-> "ok", body |-> BtOk]}

Routes == {Str(<<50, 53>>)}

----------------------------------------------------------------------------
(* process_single_route, one step at a time *)

\* no route command is running
RouteIdle ==
    /\ route_number = <<>>
    /\ route_numbers = <<>>
    /\ embeds = <<>>
    /\ returned = <<>>

\* no vehicle command and no autocompletion is running
LookupIdle ==
    /\ registration = <<>>
    /\ current = <<>>
    /\ choices = <<>>

\* the locals of process_single_route before its first statement
PipeIdle ==
    /\ data = <<>>
    /\ idx = 0
    /\ now = T0
    /\ bus_info = <<>>
    /\ bus_data = <<>>
    /\ embed = None
    /\ seen = <<>>
    /\ bt_seen = <<>>

InitWith(feeds) ==
    /\ pc = "fetch"
    /\ route \in Routes
    /\ upstream \in feeds
    /\ requests = <<>>
    /\ followup = <<>>
    /\ PipeIdle
    /\ RouteIdle
    /\ LookupIdle

Init == InitWith(FeedOutcomes)

\* the request of line 146
TflRequest(rn) == [url |-> <<"api.tfl.gov.uk/Line/", rn[2], "/Arrivals">>]

\* lines 143-152 and the handlers of lines 254-259
Fetch ==
    /\ pc = "fetch"
    /\ requests' = Append(requests, TflRequest(route))
    /\ IF upstream.kind = "ok" /\ upstream.body # <<>>
       THEN /\ data' = upstream.body
            /\ pc' = "reduce"
       ELSE /\ data' = <<>>
            /\ pc' = "done"
    /\ UNCHANGED <<route, upstream, idx, now, bus_info, bus_data, embed, seen, bt_seen, cmdVars>>

\* one iteration of the loop of lines 157-207
ReduceStep ==
    /\ pc = "reduce"
    /\ idx < Len(data)
    /\ \E tick \in Ticks :
         LET arrival == data[idx + 1]
             t == now + tick
             n == Normalize(arrival, t) IN
         /\ ReadsClock(arrival) \/ tick = 0
         /\ now' = t
         /\ bus_info' = ReduceArrival(bus_info, n)
         /\ seen' = Append(seen, n)
    /\ idx' = idx + 1
    /\ pc' = IF idx + 1 = Len(data) THEN "enrich" ELSE "reduce"
    /\ UNCHANGED <<route, upstream, data, bus_data, embed, requests, bt_seen, cmdVars>>

\* the loop of lines 211-226 without the try of lines 213-224: a failed
\* registry call reaches the handler of line 257
EnrichUnguarded(outcomes) ==
    /\ pc = "enrich"
    /\ Len(bus_data) < Len(bus_info)
    /\ \E outcome \in outcomes :
         LET reg == bus_info[Len(bus_data) + 1][1]
             info == bus_info[Len(bus_data) + 1][2] IN
         /\ requests' = Append(requests, BtRequest(reg))
         /\ bt_seen' = Append(bt_seen, outcome)
         /\ IF outcome.kind = "ok"
            THEN /\ bus_data' = Append(bus_data, BusTuple(reg, info, FleetCode(outcome)))
                 /\ pc' = pc
            ELSE /\ bus_data' = bus_data
                 /\ pc' = "done"
    /\ UNCHANGED <<route, upstream, data, idx, now, bus_info, embed, seen, cmdVars>>

\* one iteration of the loop of lines 211-226
EnrichWith(outcomes) ==
    /\ pc = "enrich"
    /\ Len(bus_data) < Len(bus_info)
    /\ \E outcome \in outcomes :
         LET reg == bus_info[Len(bus_data) + 1][1]
             info == bus_info[Len(bus_data) + 1][2] IN
         /\ requests' = Append(requests, BtRequest(reg))
         /\ bus_data' = Append(bus_data, BusTuple(reg, info, FleetCode(outcome)))
         /\ bt_seen' = Append(bt_seen, outcome)
    /\ UNCHANGED <<pc, route, upstream, data, idx, now, bus_info, embed, seen, cmdVars>>

EnrichStep == EnrichWith(BtFew)

EnrichAny == EnrichWith(BtOutcomes)

\* lines 228-252
Build ==
    /\ pc = "enrich"
    /\ Len(bus_data) = Len(bus_info)
    /\ embed' = BuildEmbed(route, bus_data)
    /\ pc' = "done"
    /\ UNCHANGED <<route, upstream, data, idx, now, bus_info, bus_data, requests, seen, bt_seen, cmdVars>>

Next == Fetch \/ ReduceStep \/ EnrichStep \/ Build

Spec == Init /\ [][Next]_vars

InitEnrich == InitWith(EnrichFeedOutcomes)

NextEnrich == Fetch \/ ReduceStep \/ EnrichAny \/ Build

SpecEnrich == InitEnrich /\ [][NextEnrich]_vars

----------------------------------------------------------------------------
(* Properties of the normaliser and the reducer, under Spec *)

Min(S) == CHOOSE x \in S : \A y \in S : x <= y

\* the iterations so far that carried vehicle identifier v
SeenOf(v) == {i \in 1..Len(seen) : seen[i].vehicle_id = v}
Known(i) == seen[i].info.timestamp # None
KnownInstants(v) == {seen[i].info.timestamp[2] : i \in {j \in SeenOf(v) : Known(j)}}

\* the loop of lines 157-207 has consumed the whole feed
LoopDone == pc \in {"enrich", "done"} /\ upstream.kind = "ok"

\* C1: when a vehicle has exactly one arrival with a known instant and one
\* with an unknown instant, in either order, the record retained after the
\* whole feed is the one with the known instant.
C1_KnownBeatsUnknown ==
    LoopDone =>
      \A v \in KeySet(bus_info) : \A i, j \in SeenOf(v) :
        (SeenOf(v) = {i, j} /\ Known(i) /\ ~Known(j))
          => Lookup(bus_info, v) = seen[i].info

\* C2: for a vehicle all of whose arrivals so far have known instants, the
\* retained record's instant is the minimum of those instants, in every
\* order of the feed.
C2_RetainedIsMinimum ==
    \A v \in KeySet(bus_info) :
      (\A i \in SeenOf(v) : Known(i))
        => Lookup(bus_info, v).timestamp = Num(Min(KnownInstants(v)))

\* three arrivals of one vehicle, three different known instants, the
\* soonest neither first nor last in the feed
C2_Witness ==
    /\ pc = "done"
    /\ \E v \in KeySet(bus_info) :
         /\ SeenOf(v) = {1, 2, 3}
         /\ \A i \in SeenOf(v) : Known(i)
         /\ Cardinality(KnownInstants(v)) = 3
         /\ seen[2].info.timestamp[2] = Min(KnownInstants(v))
         /\ Lookup(bus_info, v) = seen[2].info

\* a vehicle identifier that is present, not empty and not the sentinel
HasIdentifier(a) ==
    /\ "vehicleId" \in DOMAIN a
    /\ a.vehicleId # None
    /\ a.vehicleId # Str(<<>>)
    /\ a.vehicleId # Str(<<78, 47, 65>>)

IdentifiersSoFar == {data[i].vehicleId : i \in {j \in 1..idx : HasIdentifier(data[j])}}

C3_KeysAreIdentifiers ==
    /\ KeySet(bus_info) = IdentifiersSoFar
    /\ Len(bus_info) = Cardinality(IdentifiersSoFar)

C3_NoKeyNoChange ==
    (pc = "reduce" /\ idx < Len(data) /\ ~HasIdentifier(data[idx + 1]))
      => bus_info' = bus_info

\* C3: after every prefix of the feed the keys of bus_info are exactly the
\* distinct usable vehicle identifiers seen so far, one entry each, and an
\* arrival whose identifier is absent, empty or "N/A" leaves bus_info as it is.
C3_KeySet == [](C3_KeysAreIdentifiers) /\ [][C3_NoKeyNoChange]_vars

\* every kind of unusable identifier has gone by, between two usable ones
C3_Witness ==
    /\ pc = "done"
    /\ Len(data) = 3
    /\ HasIdentifier(data[1]) /\ ~HasIdentifier(data[2]) /\ HasIdentifier(data[3])
    /\ data[1].vehicleId # data[3].vehicleId
    /\ Keys(bus_info) = <<data[1].vehicleId, data[3].vehicleId>>

\* the instant an expectedArrival text of the feed denotes, -1 when it is
\* no ISO-8601 instant
IsoInstant(text) ==
    CASE text = <<"1970-01-01T00:16:50", "Z">> -> 1010
      [] text = <<"1970-01-01T00:20:00", "Z">> -> 1200
      [] text = <<"1970-01-01T01:19:00", "+01:00">> -> 1140
      [] OTHER -> -1

Present(a, key) == key \in DOMAIN a /\ a[key] # None

\* the instant of the arrival the loop consumed last, from its single source
C7_OneSource ==
    (idx >= 1 /\ Len(seen) = idx) =>
      LET a == data[idx]
          n == seen[idx].info IN
      /\ Present(a, "timeToStation")
           => n.timestamp = Num(now + a.timeToStation[2])
      /\ (~Present(a, "timeToStation") /\ Present(a, "expectedArrival")
            /\ IsoInstant(a.expectedArrival[2]) # -1)
           => n.timestamp = Num(IsoInstant(a.expectedArrival[2]))
      /\ (~Present(a, "timeToStation")
            /\ (Present(a, "expectedArrival") => IsoInstant(a.expectedArrival[2]) = -1))
           => n.timestamp = None
      /\ n.time_due = (IF n.timestamp = None THEN <<"N/A">>
                       ELSE <<"<t:", n.timestamp[2], ":R>">>)

\* an unparseable expectedArrival does not end the route: the whole feed
\* is consumed
C7_NoAbort == (pc = "done" /\ upstream.kind = "ok") => Len(seen) = Len(upstream.body)

ArrivalTts60 ==
    [vehicleId |-> Str(IdA), destinationName |-> "Aldgate", stationName |-> "S1",
     timeToStation |-> Num(60)]
ArrivalLater ==
    [vehicleId |-> Str(IdA), destinationName |-> "Aldgate", stationName |-> "S5",
     expectedArrival |-> Str(<<"1970-01-01T00:20:00", "Z">>)]

\* the feed {V1, timeToStation 60}, {V1, a later expectedArrival only}, in
\* either order, gives one line for V1, with the 60-second instant
C7_EndToEnd ==
    (pc = "done" /\ data \in {<<ArrivalTts60, ArrivalLater>>, <<ArrivalLater, ArrivalTts60>>})
      => /\ embed # None
         /\ Len(embed[2].value) = 1
         /\ embed[2].value[1].reg = Str(IdA)
         /\ embed[2].value[1].time_str \in {<<"<t:", T0 + tick + 60, ":R>">> : tick \in Ticks}

\* C7: the arrival instant has one source: time.time() + timeToStation when
\* timeToStation is present (expectedArrival is not consulted), else the
\* parsed expectedArrival, else unknown, rendered "N/A"; a parse failure
\* does not end the route.
C7_ArrivalInstant == C7_OneSource /\ C7_NoAbort /\ C7_EndToEnd

\* the end-to-end feed with the expectedArrival record first: the line of
\* the vehicle carries the instant 60 seconds after the clock reading
C7_Witness ==
    /\ pc = "done"
    /\ data = <<ArrivalLater, ArrivalTts60>>
    /\ embed # None
    /\ embed[2].value[1].time_str = <<"<t:", T0 + 60, ":R>">>

----------------------------------------------------------------------------
(* Properties of the enrichment loop and the builder, under SpecEnrich *)

\* the registry call failed: no connection, timeout, non-success status,
\* or a response that is no JSON or not the expected JSON
CallFailed(outcome) ==
    \/ outcome.kind \in {"conn_error", "timeout", "http_error", "bad_json"}
    \/ outcome.body[1] # "dict"

\* the fleet code a registry answer carries for its first result
FleetOfAnswer(outcome) ==
    CASE CallFailed(outcome) -> Str(<<78, 47, 65>>)
      [] outcome.body = BtOk -> Str(<<70, 49>>)
      [] outcome.body[2].results = List(<<>>) -> Str(<<78, 47, 65>>)
      [] OTHER -> Str(<<57>>)

\* the place of vehicle v in the order of the enrichment loop
PlaceOf(v) == CHOOSE i \in 1..Len(bus_info) : bus_info[i][1] = v

LinesOf(v) == {k \in 1..Len(embed[2].value) : embed[2].value[k].reg = v}

\* C5: whatever the registry call of a vehicle A does, the loop goes on to
\* every other vehicle B: the summary has one line per retained vehicle, A's
\* with fleet code "N/A" when its call failed, and each line's fleet code is
\* decided by that vehicle's own call alone.
C5_EnrichmentIsolated ==
    /\ \A i \in 1..Len(bus_data) :
         /\ bus_data[i][1] = bus_info[i][1]
         /\ bus_data[i][3] = FleetOfAnswer(bt_seen[i])
    /\ (pc = "done" /\ bus_info # <<>>) =>
         /\ embed # None
         /\ \A v \in KeySet(bus_info) :
              /\ Cardinality(LinesOf(v)) = 1
              /\ \A k \in LinesOf(v) :
                   embed[2].value[k].fleet = FleetOfAnswer(bt_seen[PlaceOf(v)])

\* the first vehicle's call failed, the second vehicle's call succeeded and
\* its line carries the fleet code of the answer
C5_Witness ==
    /\ pc = "done"
    /\ Len(bus_info) >= 2
    /\ bt_seen[1].kind = "http_error"
    /\ bt_seen[2] = [kind |-> "ok", body |-> BtOk]
    /\ \E k \in LinesOf(bus_info[1][1]) : embed[2].value[k].fleet = Str(NA)
    /\ \E k \in LinesOf(bus_info[2][1]) : embed[2].value[k].fleet = Str(F1)

\* lexicographic order of two texts by code point
RECURSIVE Before(_, _)
Before(s, t) ==
    /\ t # <<>>
    /\ \/ s = <<>>
       \/ s[1] < t[1]
       \/ s[1] = t[1] /\ Before(SubSeq(s, 2, Len(s)), SubSeq(t, 2, Len(t)))

\* C6: the summary lines are in strictly ascending order of vehicle
\* identifier and are the lines of exactly the retained vehicles, so the
\* order in which bus_info holds them does not show in the output.
C6_SortedLines ==
    (pc = "done" /\ embed # None) =>
      LET lines == embed[2].value IN
      /\ \A i, j \in 1..Len(lines) :
           i < j => Before(lines[i].reg[2], lines[j].reg[2])
      /\ {lines[i].reg : i \in 1..Len(lines)} = KeySet(bus_info)
      /\ Len(lines) = Len(bus_info)
      /\ \A i \in 1..Len(lines) :
           /\ lines[i].dest = Lookup(bus_info, lines[i].reg).destination
           /\ lines[i].stop = Lookup(bus_info, lines[i].reg).next_stop
           /\ lines[i].time_str = Lookup(bus_info, lines[i].reg).time_due

\* three vehicles held in the reverse of the ascending order
C6_Witness ==
    /\ pc = "done"
    /\ Keys(bus_info) = <<Str(Idab), Str(IdAB), Str(IdA)>>
    /\ embed # None
    /\ [i \in 1..3 |-> embed[2].value[i].reg] = <<Str(IdA), Str(IdAB), Str(Idab)>>

----------------------------------------------------------------------------
(* process_single_route as one function of what its upstream calls do *)

\* bus_info after the loop of lines 157-207 over the arrivals l
RECURSIVE ReduceAll(_, _, _)
ReduceAll(d, l, t) ==
    IF l = <<>> THEN d
    ELSE ReduceAll(ReduceArrival(d, Normalize(Head(l), t)), Tail(l), t)

\* bus_data after the loop of lines 211-226, every registry call doing bt
EnrichAll(d, bt) ==
    [i \in 1..Len(d) |-> BusTuple(d[i][1], d[i][2], FleetCode(bt))]

\* lines 143-152: whether the feed gives arrivals to work on
HasData(feed) == feed.kind = "ok" /\ feed.body # <<>>

\* the return value of process_single_route(rn)
ProcessSingleRoute(rn, feed, t, bt) ==
    IF HasData(feed)
    THEN BuildEmbed(rn, EnrichAll(ReduceAll(<<>>, feed.body, t), bt))
    ELSE None

\* the requests process_single_route(rn) issues, in order
RequestsOfRoute(rn, feed, t) ==
    <<TflRequest(rn)>> \o
    (IF HasData(feed)
     THEN [i \in 1..Len(ReduceAll(<<>>, feed.body, t)) |->
             BtRequest(ReduceAll(<<>>, feed.body, t)[i][1])]
     ELSE <<>>)

----------------------------------------------------------------------------
(* The route command (lines 99-129) *)

COMMA == 44

\* the characters str.strip() removes
IsSpace(c) == c \in {SP, 9, 10, 11, 12, 13}

\* str.split(sep)
RECURSIVE Split(_, _)
Split(s, sep) ==
    IF \E i \in 1..Len(s) : s[i] = sep
    THEN LET i == CHOOSE k \in 1..Len(s) : s[k] = sep /\ \A j \in 1..(k - 1) : s[j] # sep IN
         <<SubSeq(s, 1, i - 1)>> \o Split(SubSeq(s, i + 1, Len(s)), sep)
    ELSE <<s>>

\* str.strip() that removes nothing
StripNothing(s) == s

\* str.strip()
RECURSIVE Strip(_)
Strip(s) ==
    IF s = <<>> THEN s
    ELSE IF IsSpace(Head(s)) THEN Strip(Tail(s))
    ELSE IF IsSpace(s[Len(s)]) THEN Strip(SubSeq(s, 1, Len(s) - 1))
    ELSE s

\* line 110
RouteNumbers(text) ==
    LET parts == Split(text, COMMA)
        kept == SelectSeq(parts, LAMBDA r : Strip(r) # <<>>) IN
    [i \in 1..Len(kept) |-> Strip(kept[i])]

EmbedLimit == 10

\* embeds[:10] of line 127
FirstTen(l) == SubSeq(l, 1, IF Len(l) < EmbedLimit THEN Len(l) ELSE EmbedLimit)

NoValidRoute == [content |-> "Please provide at least one valid route number."]
NothingFound == [content |-> "Could not retrieve information for any of the requested routes."]

MaxInput == 4     \* longest text over the small alphabet
MaxRoutes == 12   \* most routes in one batch

\* short texts over comma, space and one digit
ShortInputs == SeqsUpTo({COMMA, SP, 55}, MaxInput)

\* " A, B, C, ..." with k different one-letter routes
RECURSIVE Batch(_)
Batch(k) == IF k = 0 THEN <<>> ELSE Batch(k - 1) \o <<SP, 64 + k, COMMA>>

LongInputs == {Batch(k) : k \in (EmbedLimit - 1)..MaxRoutes}

\* what the arrivals feed may do for one route of a batch
CmdFeeds ==
    {[kind |-> k] : k \in {"conn_error", "http_error", "bad_json"}}
    \cup {[kind |-> "ok", body |-> b] : b \in
            {<<>>, <<[vehicleId |-> Str(NA), stationName |-> "S9"]>>, <<ArrivalAB0>>}}

\* what the registry may do for the vehicles of one route of a batch
CmdBt == {[kind |-> "timeout"], [kind |-> "ok", body |-> Dict([results |-> List(<<>>)])]}

InitRoute ==
    /\ pc = "route"
    /\ route_number \in ShortInputs \cup LongInputs
    /\ route_numbers = <<>>
    /\ embeds = <<>>
    /\ returned = <<>>
    /\ followup = <<>>
    /\ requests = <<>>
    /\ route = None
    /\ upstream = None
    /\ PipeIdle
    /\ LookupIdle

idleInRoute ==<<route, data, idx, now, bus_info, bus_data, embed, seen, bt_seen,
                registration, current, choices>>

\* lines 107-117
RouteParse ==
    /\ pc = "route"
    /\ route_numbers' = RouteNumbers(route_number)
    /\ IF RouteNumbers(route_number) = <<>>
       THEN /\ followup' = Append(followup, NoValidRoute)
            /\ pc' = "done"
       ELSE /\ followup' = followup
            /\ pc' = "routes"
    /\ UNCHANGED <<route_number, embeds, returned, requests, upstream, idleInRoute>>

\* the loop of lines 120-123 that ends at the first route without embed
RouteLoopUntilFailure ==
    /\ pc = "routes"
    /\ Len(returned) < Len(route_numbers)
    /\ \E feed \in CmdFeeds, bt \in CmdBt :
         LET single_route == Str(route_numbers[Len(returned) + 1])
             e == ProcessSingleRoute(single_route, feed, now, bt) IN
         /\ upstream' = feed
         /\ requests' = requests \o RequestsOfRoute(single_route, feed, now)
         /\ returned' = Append(returned, e)
         /\ embeds' = IF e # None THEN Append(embeds, e) ELSE embeds
         /\ route_numbers' = IF e # None THEN route_numbers
                             ELSE SubSeq(route_numbers, 1, Len(returned) + 1)
    /\ UNCHANGED <<pc, route_number, followup, idleInRoute>>

\* one iteration of the loop of lines 120-123
RouteLoop ==
    /\ pc = "routes"
    /\ Len(returned) < Len(route_numbers)
    /\ \E feed \in CmdFeeds, bt \in CmdBt :
         LET single_route == Str(route_numbers[Len(returned) + 1])
             e == ProcessSingleRoute(single_route, feed, now, bt) IN
         /\ upstream' = feed
         /\ requests' = requests \o RequestsOfRoute(single_route, feed, now)
         /\ returned' = Append(returned, e)
         /\ embeds' = IF e # None THEN Append(embeds, e) ELSE embeds
    /\ UNCHANGED <<pc, route_number, route_numbers, followup, idleInRoute>>

\* lines 125-129
RouteSend ==
    /\ pc = "routes"
    /\ Len(returned) = Len(route_numbers)
    /\ followup' = Append(followup, IF embeds # <<>>
                                    THEN [embeds |-> FirstTen(embeds)]
                                    ELSE NothingFound)
    /\ pc' = "done"
    /\ UNCHANGED <<route_number, route_numbers, embeds, returned, requests, upstream, idleInRoute>>

NextRoute == RouteParse \/ RouteLoop \/ RouteSend

SpecRoute == InitRoute /\ [][NextRoute]_vars

----------------------------------------------------------------------------
(* Properties of the route command, under SpecRoute *)

\* the route's processing failed, or its feed was empty
NoFeed(feed) == feed.kind \in {"conn_error", "http_error", "bad_json"} \/ feed.body = <<>>

\* the embeds process_single_route returned, in the order of the routes
Produced == SelectSeq(returned, LAMBDA e : e # None)

C4_NoBlockOnFailure ==
    (returned # <<>> /\ NoFeed(upstream)) => returned[Len(returned)] = None

C4_Collected == pc \in {"routes", "done"} => embeds = Produced

C4_Response ==
    (pc = "done" /\ RouteNumbers(route_number) # <<>>) =>
      /\ route_numbers = RouteNumbers(route_number)
      /\ Len(returned) = Len(route_numbers)
      /\ \A i \in 1..Len(returned) :
           returned[i] # None => returned[i][2].title[2] = Str(route_numbers[i])
      /\ Len(followup) = 1
      /\ IF Produced = <<>>
         THEN followup[1] = NothingFound
         ELSE /\ DOMAIN followup[1] = {"embeds"}
              /\ Len(followup[1].embeds) = (IF Len(Produced) < 10 THEN Len(Produced) ELSE 10)
              /\ \A i \in 1..Len(followup[1].embeds) : followup[1].embeds[i] = Produced[i]

\* C4: in a non-empty batch a route that fails or has an empty feed gives no
\* block and the routes after it are still processed; the blocks sent are
\* those of the routes that produced one, in input order, cut to the first
\* 10; with no block at all the answer is the nothing-found message.
C4_BatchIsolation == C4_NoBlockOnFailure /\ C4_Collected /\ C4_Response

\* twelve routes, the second without block, the other eleven with one: the
\* ten sent skip the second route and drop the twelfth
C4_Witness ==
    /\ pc = "done"
    /\ Len(route_numbers) = EmbedLimit + 2
    /\ returned[2] = None
    /\ Len(Produced) = EmbedLimit + 1
    /\ Len(followup[1].embeds) = EmbedLimit
    /\ followup[1].embeds[2][2].title[2] = Str(route_numbers[3])

\* no character of the text is part of a route identifier
NoToken(text) == \A i \in 1..Len(text) : text[i] = 44 \/ text[i] \in {32, 9, 10, 11, 12, 13}

\* C10: when the input has no non-empty token after trimming, the command
\* answers with the no-valid-route message and no request is issued at any
\* point of the invocation.
C10_RejectedBeforeAnyRequest ==
    NoToken(route_number) =>
      /\ requests = <<>>
      /\ pc \in {"route", "done"}
      /\ pc = "done" => followup = <<NoValidRoute>>

\* the text " , ," has been answered
C10_Witness ==
    /\ pc = "done"
    /\ route_number = <<32, 44, 32, 44>>
    /\ followup = <<NoValidRoute>>
    /\ requests = <<>>

----------------------------------------------------------------------------
(* The vehicle command (lines 313-386) *)

Unexpected ==
    [content |-> <<"Sorry, an unexpected error occurred while fetching the vehicle data.">>]
NoVehicleFound(reg) == [content |-> <<"No vehicle found with registration **", reg, "**.">>]
CouldNotBeFound(reg) == [content |-> <<"Vehicle **", reg, "** could not be found.">>]
HttpErrorOccurred(status) == [content |-> <<"An HTTP error occurred: ", status>>]

\* bool(response) of line 380: a requests.Response is true when its status
\* is below 400
ResponseTruthy(status) == status < 400

\* the keys lines 349-375 look at, in the order of the if statements
ProfileKeys ==
    <<"operator", "fleet_number", "fleet_code", "vehicle_type", "livery",
      "chassis", "name", "notes", "url">>

\* the keys whose value is an object with a name
NestedKeys == {"operator", "vehicle_type", "livery"}

FieldName(k) ==
    CASE k = "operator" -> "**Operator**"
      [] k = "fleet_number" -> "**Fleet Number**"
      [] k = "fleet_code" -> "**Fleet Code**"
      [] k = "vehicle_type" -> "**Vehicle Type**"
      [] k = "livery" -> "**Livery**"
      [] k = "chassis" -> "**Chassis**"
      [] k = "name" -> "**Name**"
      [] k = "notes" -> "**Notes**"
      [] k = "url" -> "**More Info**"

FieldValue(vehicle_data, k) ==
    IF k \in NestedKeys THEN Get(vehicle_data[k][2], "name", "Unknown")
    ELSE IF k = "url" THEN <<"[View on bustimes.org](", vehicle_data[k], ")">>
    ELSE vehicle_data[k]

\* .get('name', ...) is called on a value that has no get (lines 350, 359, 362)
RaisesInFields(vehicle_data) ==
    \E k \in NestedKeys :
      Truthy(Get(vehicle_data, k, None)) /\ ~IsDict(vehicle_data[k])

\* the embed of lines 343-375
ProfileEmbed(vehicle_data) ==
    LET shown == SelectSeq(ProfileKeys, LAMBDA k : Truthy(Get(vehicle_data, k, None))) IN
    [title |-> <<"Vehicle Information - ", Get(vehicle_data, "reg", "Unknown")>>,
     fields |-> [i \in 1..Len(shown) |->
                   [name |-> FieldName(shown[i]),
                    value |-> FieldValue(vehicle_data, shown[i])]]]

\* the one message lines 326-386 send; outcome is what the registry call does
VehicleResponse(reg, outcome) ==
    CASE outcome.kind \in {"conn_error", "bad_json"} -> Unexpected
      [] outcome.kind = "http_error" ->
           IF ResponseTruthy(outcome.status) /\ outcome.status = 404
           THEN CouldNotBeFound(reg)
           ELSE HttpErrorOccurred(outcome.status)
      [] OTHER ->
           LET body == outcome.body IN
           IF ~IsDict(body) THEN Unexpected
           ELSE IF ~Truthy(Get(body[2], "results", None)) THEN NoVehicleFound(reg)
           ELSE IF ~IsDict(body[2].results[2][1]) THEN Unexpected
           ELSE IF RaisesInFields(body[2].results[2][1][2]) THEN Unexpected
           ELSE [embed |-> ProfileEmbed(body[2].results[2][1][2])]

\* the request of line 329
VehicleRequest(reg) == [url |-> "bustimes.org/api/vehicles/", params |-> BtParams(Str(reg))]

Registrations == {<<98, 102, 54, 51, SP, 104, 100, 103>>, <<66, 70>>, <<>>}

FullVehicle ==
    [reg |-> Str(<<66, 70>>),
     operator |-> Dict([name |-> "Arriva"]),
     fleet_number |-> Str(N9),
     fleet_code |-> Str(F1),
     vehicle_type |-> Dict([name |-> "Enviro400"]),
     livery |-> Dict([id |-> Num(7)]),
     chassis |-> Str(<<86>>),
     name |-> Str(<<80>>),
     notes |-> Str(<<>>),
     url |-> Str(<<47, 118>>)]

Restrict(f, S) == [k \in S |-> f[k]]

\* answers of the registry with a first result
VehicleBodies ==
    {Dict([results |-> List(<<Dict(Restrict(FullVehicle, S))>>)]) : S \in SUBSET DOMAIN FullVehicle}
    \cup {Dict([results |-> List(<<Dict([reg |-> Str(<<66, 70>>), operator |-> Str(<<79>>)])>>)]),
          Dict([results |-> List(<<Str(<<66, 70>>)>>)])}

\* what the registry may do for the vehicle command
VehicleOutcomes ==
    {[kind |-> k] : k \in {"conn_error", "bad_json"}}
    \cup {[kind |-> "http_error", status |-> c] : c \in {404, 429, 500, 503}}
    \cup {[kind |-> "ok", body |-> b] : b \in
            VehicleBodies \cup {List(<<>>), Dict([results |-> List(<<>>)]), Dict([count |-> Num(0)])}}

InitVehicle ==
    /\ pc = "vehicle"
    /\ registration \in Registrations
    /\ upstream \in VehicleOutcomes
    /\ requests = <<>>
    /\ followup = <<>>
    /\ current = <<>>
    /\ choices = <<>>
    /\ route = None
    /\ PipeIdle
    /\ RouteIdle

idleInLookup == <<route, data, idx, now, bus_info, bus_data, embed, seen, bt_seen,
                  route_number, route_numbers, embeds, returned>>

\* lines 320-329
VehicleCall ==
    /\ pc = "vehicle"
    /\ requests' = Append(requests, VehicleRequest(registration))
    /\ pc' = "respond"
    /\ UNCHANGED <<upstream, followup, registration, current, choices, idleInLookup>>

\* lines 330-386
VehicleRespond ==
    /\ pc = "respond"
    /\ followup' = Append(followup, VehicleResponse(registration, upstream))
    /\ pc' = "done"
    /\ UNCHANGED <<upstream, requests, registration, current, choices, idleInLookup>>

NextVehicle == VehicleCall \/ VehicleRespond

SpecVehicle == InitVehicle /\ [][NextVehicle]_vars

\* the registry was not reached, or answered with a non-success status
Outage(outcome) == outcome.kind \in {"conn_error", "http_error"}

\* the answer cannot be read as a list of vehicles with their profile
ParseFailed(outcome) ==
    \/ outcome.kind = "bad_json"
    \/ /\ outcome.kind = "ok"
       /\ \/ outcome.body[1] # "dict"
          \/ /\ "results" \in DOMAIN outcome.body[2]
             /\ outcome.body[2].results[2] # <<>>
             /\ \/ outcome.body[2].results[2][1][1] # "dict"
                \/ RaisesInFields(outcome.body[2].results[2][1][2])

\* C8: the vehicle command ends in exactly one response: the profile on a
\* match, the not-found message when the registry answers without a match,
\* and one and the same generic failure message on an outage, a non-success
\* status and a parse failure.
C8_ThreeOutcomes ==
    pc = "done" =>
      /\ Len(followup) = 1
      /\ IF Outage(upstream) \/ ParseFailed(upstream)
         THEN followup[1] = Unexpected
         ELSE IF ~Truthy(Get(upstream.body[2], "results", None))
              THEN followup[1] = NoVehicleFound(registration)
              ELSE DOMAIN followup[1] = {"embed"}

----------------------------------------------------------------------------
(* vehicle_autocomplete (lines 261-309) *)

ChoiceLimit == 25
LabelLimit == 100
LabelKeep == 97

Dash == <<SP, 45, SP>>                                   \* " - "
FleetOpen == <<SP, 40, 70, 108, 101, 101, 116, 58, SP>>   \* " (Fleet: "
FleetClose == <<41>>                                      \* ")"
Ellipsis == <<46, 46, 46>>                                \* "..."
UnknownOperator ==                                        \* "Unknown Operator"
    <<85, 110, 107, 110, 111, 119, 110, SP, 79, 112, 101, 114, 97, 116, 111, 114>>

\* lines 289-297
DisplayName(v) ==
    LET reg == Get(v, "reg", Str(<<>>))
        operator == Get(Get(v, "operator", Dict(<<>>))[2], "name", Str(UnknownOperator))
        fleet_num == Get(v, "fleet_number", Str(<<>>)) IN
    IF Truthy(fleet_num)
    THEN reg[2] \o Dash \o operator[2] \o FleetOpen \o fleet_num[2] \o FleetClose
    ELSE reg[2] \o Dash \o operator[2]

\* lines 300-301 with the ellipsis added to the first 100 characters
TruncateLate(display_name) ==
    IF Len(display_name) > LabelLimit
    THEN SubSeq(display_name, 1, LabelLimit) \o Ellipsis
    ELSE display_name

\* lines 300-301
Truncate(display_name) ==
    IF Len(display_name) > LabelLimit
    THEN SubSeq(display_name, 1, LabelKeep) \o Ellipsis
    ELSE display_name

\* line 303
Choice(v) == [name |-> Truncate(DisplayName(v)), value |-> Get(v, "reg", Str(<<>>))[2]]

\* line 290 calls get on a value that has none
RaisesInChoice(v) == ~IsDict(v) \/ ~IsDict(Get(v[2], "operator", Dict(<<>>)))

\* the return value of lines 276-309; outcome is what the registry call does
AutocompleteResult(outcome) ==
    IF outcome.kind # "ok" THEN <<>>
    ELSE IF ~IsDict(outcome.body) THEN <<>>
    ELSE LET listed == Get(outcome.body[2], "results", List(<<>>)) IN
         IF listed[1] # "list" THEN <<>>
         ELSE LET first == SubSeq(listed[2], 1,
                                  IF Len(listed[2]) < ChoiceLimit THEN Len(listed[2])
                                  ELSE ChoiceLimit) IN
              IF \E i \in 1..Len(first) : RaisesInChoice(first[i]) THEN <<>>
              ELSE [i \in 1..Len(first) |-> Choice(first[i][2])]

\* the request of line 281
SearchRequest(text) ==
    [url |-> "bustimes.org/api/vehicles/",
     params |-> [search |-> RemoveSpaces(Upper(text))], timeout |-> 5]

MaxCurrent == 3    \* longest text typed
MaxResults == 26   \* most results in one answer of the registry

Rep(c, n) == [i \in 1..n |-> c]

\* results whose labels are short, exactly 100 long, 101 long and far longer
AutoVehicles ==
    << Dict([reg |-> Str(<<66, 70>>), operator |-> Dict([name |-> Str(<<79, 112>>)]),
             fleet_number |-> Str(N9)]),
       Dict([reg |-> Str(<<66, 70>>)]),
       Dict([reg |-> Str(Rep(88, 90)), operator |-> Dict([name |-> Str(Rep(79, 7))])]),
       Dict([reg |-> Str(Rep(88, 90)), operator |-> Dict([name |-> Str(Rep(79, 8))])]),
       Dict([operator |-> Dict([name |-> Str(Rep(79, 120))]), fleet_number |-> Str(N9)]) >>

\* a result whose operator is null
AutoBad == Dict([reg |-> Str(<<66, 70>>), operator |-> None])

GoodLists ==
    {[i \in 1..k |-> AutoVehicles[((i + off) % Len(AutoVehicles)) + 1]] :
       k \in 0..MaxResults, off \in 0..(Len(AutoVehicles) - 1)}

\* what the registry may do for an autocompletion
AutoOutcomes ==
    {[kind |-> k] : k \in {"conn_error", "timeout", "http_error", "bad_json"}}
    \cup {[kind |-> "ok", body |-> b] : b \in
            {List(<<>>), Dict([count |-> Num(0)]), Dict([results |-> None])}}
    \cup {[kind |-> "ok", body |-> Dict([results |-> List(l)])] : l \in GoodLists}
    \cup {[kind |-> "ok", body |-> Dict([results |-> List(Append(l, AutoBad))])] : l \in GoodLists}

InitAutocomplete ==
    /\ pc = "autocomplete"
    /\ current \in SeqsUpTo({97, SP}, MaxCurrent)
    /\ upstream \in AutoOutcomes
    /\ requests = <<>>
    /\ followup = <<>>
    /\ registration = <<>>
    /\ choices = <<>>
    /\ route = None
    /\ PipeIdle
    /\ RouteIdle

\* lines 273-274
AutocompleteShort ==
    /\ pc = "autocomplete"
    /\ Len(current) < 2
    /\ choices' = <<>>
    /\ pc' = "done"
    /\ UNCHANGED <<upstream, requests, followup, registration, current, idleInLookup>>

\* lines 276-309
AutocompleteQuery ==
    /\ pc = "autocomplete"
    /\ ~(Len(current) < 2)
    /\ requests' = Append(requests, SearchRequest(current))
    /\ choices' = AutocompleteResult(upstream)
    /\ pc' = "done"
    /\ UNCHANGED <<upstream, followup, registration, current, idleInLookup>>

NextAutocomplete == AutocompleteShort \/ AutocompleteQuery

SpecAutocomplete == InitAutocomplete /\ [][NextAutocomplete]_vars

\* C9: vehicle_autocomplete returns a list: the empty list, with no request
\* issued, for a text shorter than 2 characters; the empty list when the
\* registry call fails; and otherwise at most 25 suggestions with labels of
\* at most 100 characters.
C9_Suggestions ==
    pc = "done" =>
      /\ Len(current) < 2 => (choices = <<>> /\ requests = <<>>)
      /\ upstream.kind \in {"conn_error", "timeout", "http_error", "bad_json"}
           => choices = <<>>
      /\ Len(choices) <= 25
      /\ \A i \in 1..Len(choices) : Len(choices[i].name) <= 100

\* 26 results gave 25 suggestions, one of them cut to 100 characters and
\* one left at its 100 characters
C9_Witness ==
    /\ pc = "done"
    /\ upstream.kind = "ok"
    /\ upstream.body[1] = "dict"
    /\ "results" \in DOMAIN upstream.body[2]
    /\ upstream.body[2].results[1] = "list"
    /\ Len(upstream.body[2].results[2]) = 26
    /\ Len(choices) = 25
    /\ \E i \in 1..Len(choices) :
         /\ Len(choices[i].name) = 100
         /\ SubSeq(choices[i].name, 98, 100) = <<46, 46, 46>>
    /\ \E i \in 1..Len(choices) :
         /\ Len(choices[i].name) = 100
         /\ choices[i].name[100] # 46

====
